---- MODULE Spec2Model ----
(***************************************************************************)
(* Model of the three workbook image-filling scripts                       *)
(*   fill_images_in_xlsx_multi_bing.py   (script = "bing")                 *)
(*   fill_images_in_xlsx_multi_google.py (script = "google")               *)
(*   fill_images_in_xlsx_pixibay.py      (script = "pixabay")              *)
(* A text is a sequence of one-character strings; a cell value is a record *)
(* tagged with its Python type; a sheet is a grid (sequence of rows, row 1  *)
(* the header row) whose width is ws.max_column and height ws.max_row.      *)
(***************************************************************************)
EXTENDS Integers, Sequences, FiniteSets, TLC

\* ------------------------------------------------------------------ bounds
MaxCands == 2
\* most URLs one provider response lists

MaxPasses == 2
\* how many times the script is run, each run on the previous run's output

MaxHostLen == 5
\* longest netloc generated for the allow-list check

MaxTextLen == 3
\* longest title generated for the query builder

\* ------------------------------------------------------------------- text
Scripts == {"bing", "google", "pixabay"}

IsSpace(c) == c = " "

\* str.lower(), on the letters the model's texts use
Lower(c) ==
  CASE c = "A" -> "a"
    [] c = "B" -> "b"
    [] c = "E" -> "e"
    [] c = "I" -> "i"
    [] c = "R" -> "r"
    [] c = "T" -> "t"
    [] OTHER -> c

LowerText(t) == [i \in 1..Len(t) |-> Lower(t[i])]

RECURSIVE LStrip(_)
LStrip(t) == IF t # <<>> /\ IsSpace(Head(t)) THEN LStrip(Tail(t)) ELSE t

RECURSIVE RStrip(_)
RStrip(t) ==
  IF t # <<>> /\ IsSpace(t[Len(t)]) THEN RStrip(SubSeq(t, 1, Len(t) - 1)) ELSE t

\* str.strip()
Strip(t) == RStrip(LStrip(t))

\* str.split(): maximal runs of non-whitespace characters, in order
RECURSIVE SplitFrom(_, _, _)
SplitFrom(t, i, cur) ==
  IF i > Len(t)
  THEN IF cur = <<>> THEN <<>> ELSE <<cur>>
  ELSE IF IsSpace(t[i])
       THEN IF cur = <<>> THEN SplitFrom(t, i + 1, <<>>)
                          ELSE <<cur>> \o SplitFrom(t, i + 1, <<>>)
       ELSE SplitFrom(t, i + 1, Append(cur, t[i]))

Split(t) == SplitFrom(t, 1, <<>>)

\* " ".join(parts)
RECURSIVE Join(_)
Join(parts) ==
  IF parts = <<>> THEN <<>>
  ELSE IF Len(parts) = 1 THEN parts[1]
  ELSE parts[1] \o <<" ">> \o Join(Tail(parts))

\* str.endswith()
EndsWith(t, suffix) ==
  /\ Len(suffix) <= Len(t)
  /\ SubSeq(t, Len(t) - Len(suffix) + 1, Len(t)) = suffix

\* ------------------------------------------------------------ cell values
None == [t |-> "none", s |-> <<>>, n |-> 0]
Str(s) == [t |-> "str", s |-> s, n |-> 0]
Num(n) == [t |-> "int", s |-> <<>>, n |-> n]

\* Python truthiness of a cell value: None, "" and 0 are falsy
Truthy(v) == (v.t = "str" /\ v.s # <<>>) \/ (v.t = "int" /\ v.n # 0)

\* str(value)
PyStr(v) ==
  CASE v.t = "str" -> v.s
    [] v.t = "int" -> IF v.n = 0 THEN <<"0">> ELSE <<"7">>
    [] OTHER -> <<"N", "o", "n", "e">>

\* the test `val and str(val).strip()` of the row loop and of build_query
HasText(v) == Truthy(v) /\ Strip(PyStr(v)) # <<>>

\* the test `isinstance(val, str) and val.strip()` of ensure_headers
IsHeaderText(v) == v.t = "str" /\ Strip(v.s) # <<>>

\* ---------------------------------------------------------- configuration
TITLE_HEADER == <<"T", "i", "t", "l", "e">>
IMAGE_HEADER == <<"I", "m", "a", "g", "e">>
BRAND_HEADER == <<"B", "r", "a", "n", "d">>
REGION_HEADER == <<"R", "e", "g", "i", "o", "n">>
OPTIONAL_QUERY_COLUMNS == <<BRAND_HEADER, REGION_HEADER>>
BING_PAGES_FIRST_PARAMS == <<1, 11>>

\* ------------------------------------------------------------ query build
\* the loop of dedupe_words: seen holds the lower-cased words kept so far
RECURSIVE DedupeLoop(_, _, _)
DedupeLoop(words, seen, out) ==
  IF words = <<>> THEN out
  ELSE IF LowerText(Head(words)) \in seen
       THEN DedupeLoop(Tail(words), seen, out)
       ELSE DedupeLoop(Tail(words), seen \cup {LowerText(Head(words))},
                       Append(out, Head(words)))

dedupe_words(text) == Join(DedupeLoop(Split(text), {}, <<>>))

\* col_index_by_name.get(name): 0 stands for the None of a missing key
MapGet(map, name) == IF name \in DOMAIN map THEN map[name] ELSE 0

\* the optional values build_query appends, in OPTIONAL_QUERY_COLUMNS order
RECURSIVE OptionalBits(_, _, _)
OptionalBits(rowCells, map, i) ==
  IF i > Len(OPTIONAL_QUERY_COLUMNS) THEN <<>>
  ELSE LET idx == MapGet(map, OPTIONAL_QUERY_COLUMNS[i])
           rest == OptionalBits(rowCells, map, i + 1)
       IN IF idx # 0 /\ HasText(rowCells[idx])
          THEN <<Strip(PyStr(rowCells[idx]))>> \o rest
          ELSE rest

\* build_query of the script sc for the title text and the row's cells
build_query(sc, base_title, rowCells, map) ==
  LET bits == <<Strip(base_title)>> \o OptionalBits(rowCells, map, 1)
  IN IF sc = "pixabay" THEN Join(bits) ELSE dedupe_words(Join(bits))

\* ------------------------------------------------------------------ sheets
\* ws.max_column and ws.max_row of a grid
Width(g) == Len(g[1])
Height(g) == Len(g)

\* a cell write done by appending a row that holds the value (ws.append)
SetCellByAppend(g, r, c, v) ==
  LET w == IF c > Len(g[1]) THEN c ELSE Len(g[1])
      Pad(rw) == [k \in 1..w |-> IF k <= Len(rw) THEN rw[k] ELSE None]
  IN [i \in 1..Len(g) |-> Pad(g[i])] \o <<[k \in 1..w |-> IF k = c THEN v ELSE None]>>

\* ws.cell(row, column, value): columns up to the written one come to exist
SetCell(g, r, c, v) ==
  LET w == IF c > Width(g) THEN c ELSE Width(g)
      Pad(rw) == [k \in 1..w |-> IF k <= Len(rw) THEN rw[k] ELSE None]
  IN [i \in 1..Len(g) |-> IF i = r THEN [Pad(g[i]) EXCEPT ![c] = v] ELSE Pad(g[i])]

\* the first loop of ensure_headers: stripped header text -> its last column
ExistingHeaders(g) ==
  LET cols == {c \in 1..Width(g) : IsHeaderText(g[1][c])}
      names == {Strip(g[1][c].s) : c \in cols}
  IN [h \in names |->
        CHOOSE c \in cols : /\ Strip(g[1][c].s) = h
                            /\ \A d \in cols : Strip(g[1][d].s) = h => d <= c]

\* ensure_headers without `max_col += 1`
SameHeaderCol(max_col) == max_col

\* the column a missing header is written to, given the running max_col
NewHeaderCol(max_col) == max_col + 1

\* the second loop of ensure_headers, from the i-th needed header on
RECURSIVE AddMissing(_, _, _, _, _)
AddMissing(g, existing, needed, i, max_col) ==
  IF i > Len(needed) THEN [grid |-> g, map |-> existing]
  ELSE IF needed[i] \in DOMAIN existing
       THEN AddMissing(g, existing, needed, i + 1, max_col)
       ELSE LET c == NewHeaderCol(max_col)
                m == [h \in DOMAIN existing \cup {needed[i]} |->
                        IF h = needed[i] THEN c ELSE existing[h]]
            IN AddMissing(SetCell(g, 1, c, Str(needed[i])), m, needed, i + 1, c)

ensure_headers(g, needed) ==
  AddMissing(g, ExistingHeaders(g), needed, 1, Width(g))

\* -------------------------------------------------------------------- URLs
URLS == {"u1", "u2"}
NoLink == ""

\* the netloc of each candidate URL
NetlocOf(u) ==
  IF u = "u1" THEN <<"s", ".", "e", ".", "c">> ELSE <<"x", "e", ".", "c">>

UrlText(u) == <<"h", "t", "t", "p", ":", "/", "/">> \o NetlocOf(u) \o <<"/", "i">>

\* urlparse(url).netloc: what follows "//" up to the next "/", "?" or "#"
RECURSIVE UpToDelim(_)
UpToDelim(t) ==
  IF t = <<>> \/ Head(t) \in {"/", "?", "#"} THEN <<>>
  ELSE <<Head(t)>> \o UpToDelim(Tail(t))

RECURSIVE AfterSlashes(_)
AfterSlashes(t) ==
  IF Len(t) < 2 THEN <<>>
  ELSE IF t[1] = "/" /\ t[2] = "/" THEN SubSeq(t, 3, Len(t))
  ELSE IF t[1] \in {"/", "?", "#"} THEN <<>>
  ELSE AfterSlashes(Tail(t))

Netloc(url) == UpToDelim(AfterSlashes(url))

\* domain_is_allowed of the Bing script, for ALLOWED_DOMAINS = allow
domain_is_allowed(allow, url) ==
  \/ allow = <<>>
  \/ LET host == LowerText(Netloc(url))
     IN \E i \in 1..Len(allow) : EndsWith(host, LowerText(allow[i]))

\* ------------------------------------------------------ provider responses
\* one result of a Pixabay response: its three URL fields ("" when missing)
Hit(l, w, p) == [largeImageURL |-> l, webformatURL |-> w, previewURL |-> p]

\* h.get("largeImageURL") or h.get("webformatURL") or h.get("previewURL")
HitCandidate(h) ==
  IF h.largeImageURL # NoLink THEN h.largeImageURL
  ELSE IF h.webformatURL # NoLink THEN h.webformatURL
  ELSE h.previewURL

\* the final loop of parse_bing_image_results: first occurrences, in order
RECURSIVE Unique(_, _)
Unique(us, seen) ==
  IF us = <<>> THEN <<>>
  ELSE IF Head(us) \in seen THEN Unique(Tail(us), seen)
  ELSE <<Head(us)>> \o Unique(Tail(us), seen \cup {Head(us)})

\* parse_bing_image_results: the http URLs the page lists, de-duplicated
parse_bing_image_results(entries) ==
  Unique(SelectSeq(entries, LAMBDA e : e # NoLink), {})

\* the items loop of google_image_search: every item's link, when it has one
GoogleLinks(entries) == SelectSeq(entries, LAMBDA e : e # NoLink)

\* the candidates pixabay_first_image_url probes, in hit order
RECURSIVE PixabayCandidates(_)
PixabayCandidates(hits) ==
  IF hits = <<>> THEN <<>>
  ELSE IF HitCandidate(Head(hits)) = NoLink THEN PixabayCandidates(Tail(hits))
  ELSE <<HitCandidate(Head(hits))>> \o PixabayCandidates(Tail(hits))

\* head_ok as a probe that answers whatever it is asked
ProbeAlwaysOk(liveSet, u) == TRUE

\* head_ok: the probe's answer for the URL
head_ok(liveSet, u) == u \in liveSet

\* what a provider may answer to one search request
FailKinds(sc) ==
  IF sc = "bing" THEN {"error", "http429"} ELSE {"error", "http429", "garbage"}

PixHits ==
  { Hit("u1", "u2", NoLink), Hit(NoLink, "u2", "u1"),
    Hit(NoLink, NoLink, "u1"), Hit(NoLink, NoLink, NoLink) }

Entries(sc) == IF sc = "pixabay" THEN PixHits ELSE URLS \cup {NoLink}

Pages(E) == UNION {[1..n -> E] : n \in 0..MaxCands}

Responses(sc) ==
  {[kind |-> k, entries |-> <<>>] : k \in FailKinds(sc)}
    \cup {[kind |-> "ok", entries |-> p] : p \in Pages(Entries(sc))}

\* the candidate URLs a script draws from a successful response
CandidatesOf(sc, entries) ==
  CASE sc = "bing" -> parse_bing_image_results(entries)
    [] sc = "google" -> GoogleLinks(entries)
    [] OTHER -> PixabayCandidates(entries)

\* ------------------------------------------------------------------- state
VARIABLES
  script,        \* which of the three scripts runs
  cred,          \* whether the script's credential (key/cx, API key) resolves
  inputExists,   \* os.path.exists(INPUT_XLSX)
  live,          \* the URLs a HEAD probe answers 2xx/3xx for
  allowed,       \* ALLOWED_DOMAINS (Bing script)
  passes,        \* how many runs are made, each on the previous run's output
  inFile,        \* the workbook stored at the input path
  wb,            \* the workbook in memory
  outFiles,      \* the workbooks saved so far, one per completed run
  pc,            \* where main() is
  pass,          \* the number of the current run
  sh,            \* index of the current sheet in wb.worksheets
  col_map,       \* ensure_headers' result for the current sheet
  title_col,
  image_col,
  rows,          \* ws.max_row read after ensure_headers
  row,           \* the row loop's index
  filled,
  skipped,
  total_filled,
  total_skipped,
  query,         \* build_query's result for the current row
  page,          \* index into BING_PAGES_FIRST_PARAMS
  candidates,    \* the candidate URLs of the last successful response
  prior,         \* the candidates of the row's earlier pages, in order
  ci,            \* index of the candidate looked at next
  url,           \* the url / chosen variable of the row loop
  rowLog,        \* network requests and sleeps made for the current row
  world,         \* responses given in a run that a later run will ask again
  writes,        \* cell writes made in the current run
  call           \* argument and result of a helper applied on its own

vars ==
  <<script, cred, inputExists, live, allowed, passes, inFile, wb, outFiles, pc,
    pass, sh, col_map, title_col, image_col, rows, row, filled, skipped,
    total_filled, total_skipped, query, page, candidates, prior, ci, url,
    rowLog, world, writes, call>>

envVars == <<script, cred, inputExists, live, allowed, passes, call>>
sheetVars == <<sh, col_map, title_col, image_col, rows>>
countVars == <<filled, skipped, total_filled, total_skipped>>
searchVars == <<query, page, candidates, prior, ci, url, rowLog, world>>

NoCall == [fn |-> "none"]
EmptyMap == [h \in {} |-> 0]

\* one network step of a row: status is the answer to a search request
LogEntry(kind, u, ok) == [kind |-> kind, u |-> u, ok |-> ok, status |-> ""]

\* a search request and the kind of answer it got
SearchEntry(kind) == [LogEntry("search", NoLink, kind = "ok") EXCEPT !.status = kind]

\* number of search requests already made for the current row
NumSearches(log) == Len(SelectSeq(log, LAMBDA e : e.kind = "search"))

\* the responses the provider may give to the current row's next request
RespChoices ==
  LET key == <<sh, row, NumSearches(rowLog) + 1>>
  IN IF key \in DOMAIN world THEN {world[key]} ELSE Responses(script)

\* the world after answering the current row's next request with resp
Remember(resp) ==
  LET key == <<sh, row, NumSearches(rowLog) + 1>>
  IN IF pass < passes /\ key \notin DOMAIN world
     THEN [k \in DOMAIN world \cup {key} |-> IF k = key THEN resp ELSE world[k]]
     ELSE world

\* ------------------------------------------------------------- input books
TitleVals == {None, Str(<<" ">>), Num(0), Str(<<"a", " ", "A">>)}
ImageVals == {None, Str(<<" ">>), Num(0), Str(<<"o">>)}
RegionVals == {None, Str(<<"A">>)}
OtherVals == {None, Str(<<"b">>)}

HeaderRows ==
  { <<Str(TITLE_HEADER), Str(IMAGE_HEADER)>>,
    <<Str(TITLE_HEADER)>>,
    <<Str(TITLE_HEADER), Str(REGION_HEADER), Str(IMAGE_HEADER)>>,
    <<Str(TITLE_HEADER), None>>,
    <<Str(<<" ">> \o IMAGE_HEADER \o <<" ">>), Str(TITLE_HEADER)>> }

ColVals(h) ==
  IF h.t # "str" THEN OtherVals
  ELSE IF Strip(h.s) = TITLE_HEADER THEN TitleVals
  ELSE IF Strip(h.s) = IMAGE_HEADER THEN ImageVals
  ELSE RegionVals

DataRows(hdr) ==
  {r \in [1..Len(hdr) -> TitleVals \cup ImageVals \cup RegionVals \cup OtherVals] :
     \A c \in 1..Len(hdr) : r[c] \in ColVals(hdr[c])}

\* a sheet nothing was ever written to: max_row = max_column = 1
EmptySheet == <<(<<None>>)>>

\* the sheets with one of the given header rows and at most one data row
SheetsWith(hdrs) ==
  {<<hdr>> : hdr \in hdrs}
    \cup UNION {{<<hdr, r>> : r \in DataRows(hdr)} : hdr \in hdrs}

SmallSheets == {EmptySheet} \cup SheetsWith(HeaderRows)

\* one sheet: two rows that need an image, then one that has an image
TwoRowBook ==
  << << <<Str(TITLE_HEADER), Str(REGION_HEADER), Str(IMAGE_HEADER)>>,
        <<Str(<<"a", " ", "A">>), Str(<<"A">>), None>>,
        <<Str(<<"b">>), None, Str(<<" ">>)>>,
        <<Str(<<"o">>), None, Str(<<"o">>)>> >> >>

\* two sheets: the first lacks the Image header, the second the Title header
TwoSheetBook ==
  << << <<Str(TITLE_HEADER), None>>,
        <<Str(<<"a">>), Str(<<"b">>)>>,
        <<None, None>> >>,
     << <<Str(IMAGE_HEADER)>>,
        <<Str(<<"o">>)>>,
        <<None>> >> >>

Workbooks == {<<s>> : s \in SmallSheets} \cup {TwoRowBook, TwoSheetBook}

AllowLists == {<<>>, << <<"e", ".", "c">> >>, << <<"s", ".", "e", ".", "c">> >>}

\* ---------------------------------------------------------- initial states
IdleRun ==
  /\ wb = <<>> /\ outFiles = <<>> /\ pass = 1
  /\ sh = 0 /\ col_map = EmptyMap /\ title_col = 0 /\ image_col = 0
  /\ rows = 0 /\ row = 0
  /\ filled = 0 /\ skipped = 0 /\ total_filled = 0 /\ total_skipped = 0
  /\ query = <<>> /\ page = 0 /\ candidates = <<>> /\ prior = <<>> /\ ci = 0
  /\ url = NoLink
  /\ rowLog = <<>> /\ world = <<>> /\ writes = 0

InitRun(books, np) ==
  /\ script \in Scripts
  /\ cred \in (IF script = "bing" THEN {TRUE} ELSE BOOLEAN)
  /\ inputExists \in BOOLEAN
  /\ live \in SUBSET URLS
  /\ allowed \in (IF script = "bing" THEN AllowLists ELSE {<<>>})
  /\ passes = np
  /\ inFile \in (IF inputExists THEN books ELSE {<<>>})
  /\ pc = "start"
  /\ call = NoCall
  /\ IdleRun

Init == InitRun(Workbooks, 1)

\* ------------------------------------------------------------ main: start
\* main returns at once when the input workbook does not exist
InputMissing ==
  /\ pc = "start" /\ ~inputExists
  /\ pc' = "nofile"
  /\ UNCHANGED <<envVars, inFile, wb, outFiles, pass, sheetVars, row, countVars,
                 searchVars, writes>>

\* resolve_google_key_and_cx raises before the workbook is loaded
MissingGoogleCredential ==
  /\ pc = "start" /\ inputExists /\ script = "google" /\ ~cred
  /\ pc' = "aborted"
  /\ UNCHANGED <<envVars, inFile, wb, outFiles, pass, sheetVars, row, countVars,
                 searchVars, writes>>

\* load_workbook(INPUT_XLSX); the totals start at 0
LoadWorkbook ==
  /\ pc = "start" /\ inputExists /\ (script = "google" => cred)
  /\ wb' = inFile
  /\ total_filled' = 0 /\ total_skipped' = 0
  /\ sh' = 1
  /\ pc' = "sheet"
  /\ UNCHANGED <<envVars, inFile, outFiles, pass, col_map, title_col, image_col,
                 rows, row, filled, skipped, searchVars, writes>>

\* ------------------------------------------------------- main: sheet loop
\* the head of `for ws in wb.worksheets`, up to the start of the row loop
NextSheet ==
  /\ pc = "sheet" /\ sh <= Len(wb)
  /\ LET r == ensure_headers(wb[sh], <<TITLE_HEADER, IMAGE_HEADER>>)
     IN /\ wb' = [wb EXCEPT ![sh] = r.grid]
        /\ col_map' = r.map
        /\ title_col' = r.map[TITLE_HEADER]
        /\ image_col' = r.map[IMAGE_HEADER]
        /\ rows' = Height(r.grid)
        /\ writes' = writes + (Width(r.grid) - Width(wb[sh]))
  /\ filled' = 0 /\ skipped' = 0
  /\ row' = 2
  /\ pc' = "row"
  /\ UNCHANGED <<envVars, inFile, outFiles, pass, sh, total_filled,
                 total_skipped, searchVars>>

\* wb.save(OUTPUT_XLSX) after the last sheet
Save ==
  /\ pc = "sheet" /\ sh > Len(wb)
  /\ outFiles' = Append(outFiles, wb)
  /\ pc' = "done"
  /\ UNCHANGED <<envVars, inFile, wb, pass, sheetVars, row, countVars,
                 searchVars, writes>>

\* --------------------------------------------------------- main: row loop
\* the row loop without its test on the Image cell
NeverHasImage(v) == FALSE

\* the row loop's test on the Image cell: `existing and str(existing).strip()`
AlreadyHasImage(v) == HasText(v)

\* the row loop ends: the sheet's counts are added to the totals
EndSheet ==
  /\ pc = "row" /\ row > rows
  /\ total_filled' = total_filled + filled
  /\ total_skipped' = total_skipped + skipped
  /\ sh' = sh + 1
  /\ pc' = "sheet"
  /\ UNCHANGED <<envVars, inFile, wb, outFiles, pass, col_map, title_col,
                 image_col, rows, row, filled, skipped, searchVars, writes>>

\* a row without a title is counted as skipped
SkipEmptyTitle ==
  /\ pc = "row" /\ row <= rows
  /\ ~HasText(wb[sh][row][title_col])
  /\ skipped' = skipped + 1
  /\ row' = row + 1
  /\ UNCHANGED <<envVars, inFile, wb, outFiles, pc, pass, sheetVars, filled,
                 total_filled, total_skipped, searchVars, writes>>

\* a row that already has an image is passed over
SkipExisting ==
  /\ pc = "row" /\ row <= rows
  /\ HasText(wb[sh][row][title_col])
  /\ AlreadyHasImage(wb[sh][row][image_col])
  /\ row' = row + 1
  /\ UNCHANGED <<envVars, inFile, wb, outFiles, pc, pass, sheetVars, countVars,
                 searchVars, writes>>

\* the query is built and the provider function is entered
BeginResolve ==
  /\ pc = "row" /\ row <= rows
  /\ HasText(wb[sh][row][title_col])
  /\ ~AlreadyHasImage(wb[sh][row][image_col])
  /\ query' = build_query(script, PyStr(wb[sh][row][title_col]), wb[sh][row], col_map)
  /\ page' = 1 /\ candidates' = <<>> /\ prior' = <<>> /\ ci' = 1 /\ url' = NoLink
  /\ rowLog' = <<>>
  /\ pc' = "search"
  /\ UNCHANGED <<envVars, inFile, wb, outFiles, pass, sheetVars, row, countVars,
                 world, writes>>

\* ------------------------------------------------------------------ search
runVars == <<envVars, inFile, wb, outFiles, pass, sheetVars, row, countVars, writes>>

\* bing_first_live_image: one pass of `for first in BING_PAGES_FIRST_PARAMS`
\* up to the candidate loop; a failed request goes on to the next page
BingRequest ==
  /\ pc = "search" /\ script = "bing" /\ page <= Len(BING_PAGES_FIRST_PARAMS)
  /\ \E resp \in RespChoices :
       /\ rowLog' = Append(rowLog, SearchEntry(resp.kind))
       /\ world' = Remember(resp)
       /\ IF resp.kind = "ok"
          THEN /\ candidates' = CandidatesOf(script, resp.entries)
               /\ prior' = prior \o candidates
               /\ ci' = 1
               /\ pc' = "cand"
               /\ page' = page
          ELSE /\ page' = page + 1
               /\ UNCHANGED <<candidates, prior, ci, pc>>
  /\ UNCHANGED <<runVars, query, url>>

\* bing_first_live_image: every page was tried, return None
BingExhausted ==
  /\ pc = "search" /\ script = "bing" /\ page > Len(BING_PAGES_FIRST_PARAMS)
  /\ url' = NoLink
  /\ pc' = "write"
  /\ UNCHANGED <<runVars, query, page, candidates, prior, ci, rowLog, world>>

\* google_image_search: the first requests.get
GoogleRequest ==
  /\ pc = "search" /\ script = "google"
  /\ \E resp \in RespChoices :
       /\ world' = Remember(resp)
       /\ CASE resp.kind = "http429" ->
                 /\ rowLog' = rowLog \o <<SearchEntry(resp.kind),
                                          LogEntry("sleep", NoLink, TRUE)>>
                 /\ pc' = "retry"
                 /\ UNCHANGED candidates
            [] resp.kind = "garbage" ->
                 /\ rowLog' = Append(rowLog, SearchEntry(resp.kind))
                 /\ pc' = "crashed"
                 /\ UNCHANGED candidates
            [] resp.kind = "error" ->
                 /\ rowLog' = Append(rowLog, SearchEntry(resp.kind))
                 /\ candidates' = <<>>
                 /\ pc' = "cand"
            [] OTHER ->
                 /\ rowLog' = Append(rowLog, SearchEntry(resp.kind))
                 /\ candidates' = CandidatesOf(script, resp.entries)
                 /\ pc' = "cand"
  /\ UNCHANGED <<runVars, query, page, prior, ci, url>>

\* google_image_search: the second requests.get, made after a 429
GoogleRetry ==
  /\ pc = "retry" /\ script = "google"
  /\ \E resp \in RespChoices :
       /\ world' = Remember(resp)
       /\ rowLog' = Append(rowLog, SearchEntry(resp.kind))
       /\ CASE resp.kind = "garbage" ->
                 /\ pc' = "crashed"
                 /\ UNCHANGED candidates
            [] resp.kind = "ok" ->
                 /\ candidates' = CandidatesOf(script, resp.entries)
                 /\ pc' = "cand"
            [] OTHER ->
                 /\ candidates' = <<>>
                 /\ pc' = "cand"
  /\ UNCHANGED <<runVars, query, page, prior, ci, url>>

\* pixabay_first_image_url: `if not API_KEY: raise RuntimeError`
PixabayNoKey ==
  /\ pc = "search" /\ script = "pixabay" /\ ~cred
  /\ pc' = "crashed"
  /\ UNCHANGED <<runVars, searchVars>>

\* pixabay_first_image_url: the request and the reading of its hits
PixabayRequest ==
  /\ pc = "search" /\ script = "pixabay" /\ cred
  /\ \E resp \in RespChoices :
       /\ world' = Remember(resp)
       /\ rowLog' = Append(rowLog, SearchEntry(resp.kind))
       /\ CASE resp.kind = "garbage" ->
                 /\ pc' = "crashed"
                 /\ UNCHANGED <<candidates, url>>
            [] resp.kind = "ok" ->
                 /\ candidates' = CandidatesOf(script, resp.entries)
                 /\ pc' = "cand"
                 /\ UNCHANGED url
            [] OTHER ->
                 /\ url' = NoLink
                 /\ pc' = "write"
                 /\ UNCHANGED candidates
  /\ UNCHANGED <<runVars, query, page, prior, ci>>

\* --------------------------------------------------------- candidate loop
\* the candidate loop without its break / return
NoShortCircuit(isLive) == "cand"

\* where the candidate loop goes after a probe: a live candidate ends it
AfterProbe(isLive) == IF isLive THEN "write" ELSE "cand"

\* the candidate loop is over without a live candidate; the Bing script
\* sleeps 0.3 s and goes to the next page, the others have no result
CandidatesExhausted ==
  /\ pc = "cand" /\ ci > Len(candidates)
  /\ IF script = "bing"
     THEN /\ rowLog' = Append(rowLog, LogEntry("sleep", NoLink, TRUE))
          /\ page' = page + 1
          /\ pc' = "search"
     ELSE /\ pc' = "write"
          /\ UNCHANGED <<rowLog, page>>
  /\ UNCHANGED <<runVars, query, candidates, prior, ci, url, world>>

\* bing_first_live_image: `if not domain_is_allowed(candidate): continue`
SkipDisallowed ==
  /\ pc = "cand" /\ ci <= Len(candidates) /\ script = "bing"
  /\ ~domain_is_allowed(allowed, UrlText(candidates[ci]))
  /\ ci' = ci + 1
  /\ UNCHANGED <<runVars, query, page, candidates, prior, url, rowLog, world, pc>>

\* head_ok(candidate): a live candidate is taken and the loop left
Probe ==
  /\ pc = "cand" /\ ci <= Len(candidates)
  /\ script = "bing" => domain_is_allowed(allowed, UrlText(candidates[ci]))
  /\ LET u == candidates[ci]
         ok == head_ok(live, u)
         nxt == AfterProbe(ok)
     IN /\ rowLog' = Append(rowLog, LogEntry("probe", u, ok))
        /\ url' = IF ok THEN u ELSE url
        /\ ci' = IF nxt = "cand" THEN ci + 1 ELSE ci
        /\ pc' = nxt
  /\ UNCHANGED <<runVars, query, page, candidates, prior, world>>

\* ------------------------------------------------------------------ write
\* the row loop writing whatever the provider function returned
WriteAlways(u) == TRUE

\* `if url:` of the row loop
UrlFound(u) == u # NoLink

\* the value written to the Image cell
WrittenValue(u) == Str(UrlText(u))

\* the URL is written, the row counted as filled, then the polite sleep
WriteUrl ==
  /\ pc = "write" /\ UrlFound(url)
  /\ wb' = [wb EXCEPT ![sh] = SetCell(wb[sh], row, image_col, WrittenValue(url))]
  /\ filled' = filled + 1
  /\ writes' = writes + 1
  /\ rowLog' = Append(rowLog, LogEntry("sleep", NoLink, TRUE))
  /\ row' = row + 1
  /\ pc' = "row"
  /\ UNCHANGED <<envVars, inFile, outFiles, pass, sheetVars, skipped,
                 total_filled, total_skipped, query, page, candidates, prior, ci,
                 url, world>>

\* nothing was found: only the polite sleep
NoImage ==
  /\ pc = "write" /\ ~UrlFound(url)
  /\ rowLog' = Append(rowLog, LogEntry("sleep", NoLink, TRUE))
  /\ row' = row + 1
  /\ pc' = "row"
  /\ UNCHANGED <<envVars, inFile, wb, outFiles, pass, sheetVars, countVars,
                 query, page, candidates, prior, ci, url, world, writes>>

\* ------------------------------------------------------------ process exit
\* the run is over: main returned, or an exception left it
Terminated == pc \in {"nofile", "aborted", "crashed", "done"}

\* the interpreter's exit status once `main()` is over: 1 after an uncaught
\* exception, 0 when main returns (also by its early `return`)
ExitStatus == IF pc \in {"aborted", "crashed"} THEN 1 ELSE 0

\* ------------------------------------------------------------- second run
\* the script is run again, on the workbook the previous run saved
Rerun ==
  /\ pc = "done" /\ pass < passes
  /\ inFile' = outFiles[Len(outFiles)]
  /\ pass' = pass + 1
  /\ writes' = 0
  /\ pc' = "start"
  /\ UNCHANGED <<envVars, wb, outFiles, sheetVars, row, countVars, searchVars>>

Next ==
  \/ InputMissing \/ MissingGoogleCredential \/ LoadWorkbook
  \/ NextSheet \/ Save
  \/ EndSheet \/ SkipEmptyTitle \/ SkipExisting \/ BeginResolve
  \/ BingRequest \/ BingExhausted \/ GoogleRequest \/ GoogleRetry
  \/ PixabayNoKey \/ PixabayRequest
  \/ CandidatesExhausted \/ SkipDisallowed \/ Probe
  \/ WriteUrl \/ NoImage

Spec == Init /\ [][Next]_vars

\* the books that are run twice: with and without the Image header, empty,
\* and the two-sheet book
TwiceBooks ==
  {<<s>> : s \in {EmptySheet} \cup SheetsWith({ <<Str(TITLE_HEADER), Str(IMAGE_HEADER)>>,
                                                <<Str(TITLE_HEADER)>> })}
    \cup {TwoSheetBook}

InitTwice == InitRun(TwiceBooks, MaxPasses)

NextTwice == Next \/ Rerun

SpecTwice == InitTwice /\ [][NextTwice]_vars

\* ------------------------------------------------- helpers applied alone
\* the run's variables while only a helper is applied
IdleEnv ==
  /\ cred = TRUE /\ inputExists = TRUE /\ live = {} /\ passes = 1
  /\ inFile = <<>> /\ pc = "idle"
  /\ IdleRun

Texts(alphabet, n) == UNION {[1..k -> alphabet] : k \in 0..n}

\* col_index_by_name of a sheet whose headers are Title, Brand, Region, Image
QueryMap ==
  [h \in {TITLE_HEADER, BRAND_HEADER, REGION_HEADER, IMAGE_HEADER} |->
     CASE h = TITLE_HEADER -> 1
       [] h = BRAND_HEADER -> 2
       [] h = REGION_HEADER -> 3
       [] OTHER -> 4]

InitQuery ==
  /\ script \in Scripts
  /\ allowed = <<>>
  /\ call \in {[fn |-> "build_query", cells |-> <<Str(t), b, r, None>>,
                out |-> <<>>, done |-> FALSE] :
                 t \in {x \in Texts({"a", "A", "b", " "}, MaxTextLen) : HasText(Str(x))},
                 b \in {None, Str(<<"A">>)},
                 r \in {None, Str(<<"a", " ">>), Str(<<" ">>)}}
  /\ IdleEnv

\* query = build_query(str(title_val), ws, row, col_index_by_name)
CallBuildQuery ==
  /\ call.fn = "build_query" /\ ~call.done
  /\ call' = [call EXCEPT
                !.out = build_query(script, PyStr(call.cells[1]), call.cells, QueryMap),
                !.done = TRUE]
  /\ UNCHANGED <<script, cred, inputExists, live, allowed, passes, inFile, wb,
                 outFiles, pc, pass, sheetVars, row, countVars, searchVars, writes>>

SpecQuery == InitQuery /\ [][CallBuildQuery]_vars

HostAlphabet == {"e", "E", "c", "x", ".", ":", "8"}

InitDomain ==
  /\ script = "bing"
  /\ allowed \in {<<>>, << <<"e", ".", "c">> >>}
  /\ call \in {[fn |-> "domain_is_allowed", netloc |-> h, ret |-> FALSE,
                done |-> FALSE] : h \in Texts(HostAlphabet, MaxHostLen) \ {<<>>}}
  /\ IdleEnv

\* domain_is_allowed(candidate) for the URL http://<netloc>/i
CallDomainIsAllowed ==
  /\ call.fn = "domain_is_allowed" /\ ~call.done
  /\ call' = [call EXCEPT
                !.ret = domain_is_allowed(allowed,
                          <<"h", "t", "t", "p", ":", "/", "/">> \o call.netloc \o <<"/", "i">>),
                !.done = TRUE]
  /\ UNCHANGED <<script, cred, inputExists, live, allowed, passes, inFile, wb,
                 outFiles, pc, pass, sheetVars, row, countVars, searchVars, writes>>

SpecDomain == InitDomain /\ [][CallDomainIsAllowed]_vars

\* ================================================================= claims
RowLoopPcs == {"row", "search", "retry", "cand", "write"}

\* a cell value that is not blank: anything but None and whitespace-only text
NonBlank(v) == v.t = "int" \/ (v.t = "str" /\ Strip(v.s) # <<>>)

\* the Image column of a sheet as it was stored, 0 when it has none
TargetColOf(g) == MapGet(ExistingHeaders(g), IMAGE_HEADER)

\* the candidates offered for the current row so far, in page order
Offered == prior \o candidates

\* the allow-list check as the running script applies it to a candidate
Admitted(u) == script = "bing" => domain_is_allowed(allowed, UrlText(u))

\* C1: when a run ends, every data row's Image cell that held a non-blank
\* value in the input workbook holds that same value.
C1_NonBlankImageKept ==
  pc = "done" =>
    \A s \in 1..Len(inFile) :
      LET c == TargetColOf(inFile[s])
      IN c # 0 =>
           \A r \in 2..Height(inFile[s]) :
             NonBlank(inFile[s][r][c]) => wb[s][r][c] = inFile[s][r][c]

C3_ShortCircuit ==
  \A i \in 1..Len(rowLog) :
    (rowLog[i].kind = "probe" /\ rowLog[i].u \in live) =>
      /\ \A j \in (i + 1)..Len(rowLog) : rowLog[j].kind = "sleep"
      /\ pc \notin {"search", "retry", "cand"}

\* a live candidate was taken while a later live candidate of the same page,
\* and Bing's second page, were never asked for
C3_Witness ==
  /\ pc = "write" /\ url # NoLink /\ script = "bing" /\ page = 1
  /\ ci < Len(candidates) /\ candidates[ci + 1] \in live

\* C4: in the row loop the workbook changes exactly in the step that ends a
\* row resolved to a URL, and then only that row's Image cell changes, to that
\* URL; a row without a result and a skipped row leave every cell as it was.
C4_WriteIffFilled ==
  [][(pc \in RowLoopPcs) =>
       (IF pc = "write" /\ url # NoLink
        THEN /\ wb' = [wb EXCEPT ![sh][row][image_col] = Str(UrlText(url))]
             /\ wb'[sh][row][image_col] # wb[sh][row][image_col]
        ELSE wb' = wb)]_vars

\* a row was filled and a later row of the same sheet ended without a result
C4_Witness ==
  /\ pc = "row" /\ row = 4 /\ filled = 1 /\ Height(wb[sh]) >= 4
  /\ wb[sh][2][image_col] \in {Str(UrlText(u)) : u \in URLS}
  /\ wb[sh][3][image_col] = inFile[sh][3][image_col]

\* the words of the title and of the present auxiliary values, in order
InputTokens(cells) ==
  Split(Join(<<PyStr(cells[1])>>
             \o (IF NonBlank(cells[2]) THEN <<PyStr(cells[2])>> ELSE <<>>)
             \o (IF NonBlank(cells[3]) THEN <<PyStr(cells[3])>> ELSE <<>>)))

\* the words of ws that no earlier word equals when case is ignored
RECURSIVE FirstOccurrences(_, _)
FirstOccurrences(ws, n) ==
  IF n = 0 THEN <<>>
  ELSE IF \E j \in 1..(n - 1) : LowerText(ws[j]) = LowerText(ws[n])
       THEN FirstOccurrences(ws, n - 1)
       ELSE Append(FirstOccurrences(ws, n - 1), ws[n])

\* C5: the query built for a row holds no two words equal when case is
\* ignored; its words are the first occurrences of the input words in their
\* order and casing, joined by single spaces (for each of the three scripts).
C5_QueryDeduped ==
  (call.fn = "build_query" /\ call.done) =>
    LET words == Split(call.out)
    IN /\ \A i, j \in 1..Len(words) :
            i # j => LowerText(words[i]) # LowerText(words[j])
       /\ words = FirstOccurrences(InputTokens(call.cells),
                                   Len(InputTokens(call.cells)))
       /\ call.out = Join(words)

\* urlparse(url).hostname of a netloc without user info: the part before ":"
RECURSIVE BeforeColon(_)
BeforeColon(t) ==
  IF t = <<>> \/ Head(t) = ":" THEN <<>>
  ELSE <<Head(t)>> \o BeforeColon(Tail(t))

HostOf(netloc) == LowerText(BeforeColon(netloc))

\* C6: domain_is_allowed answers true exactly when the allow-list is empty,
\* or the URL's host, case ignored, equals an entry or ends with "." followed
\* by an entry.
C6_AdmissibleIffHostMatches ==
  (call.fn = "domain_is_allowed" /\ call.done) =>
    (call.ret <=>
       \/ allowed = <<>>
       \/ \E i \in 1..Len(allowed) :
            \/ HostOf(call.netloc) = LowerText(allowed[i])
            \/ EndsWith(HostOf(call.netloc), <<".">> \o LowerText(allowed[i])))

\* some cell of the book holds a URL the scripts write
HoldsWrittenUrl(book) ==
  \E s \in 1..Len(book) : \E r \in 1..Len(book[s]) : \E c \in 1..Len(book[s][r]) :
    book[s][r][c] \in {Str(UrlText(u)) : u \in URLS}

\* C7: a run on the workbook that the previous run saved, with the provider
\* and the probes answering as before, writes no cell and saves a workbook
\* identical to the one it was given.
C7_SecondRunWritesNothing ==
  pass >= 2 =>
    /\ writes = 0
    /\ pc = "done" => outFiles[Len(outFiles)] = outFiles[Len(outFiles) - 1]

\* a second run has ended on a workbook in which the first run filled a row
\* after asking the provider; the second run skipped that row
C7_Witness ==
  /\ pass = 2 /\ pc = "done" /\ world # <<>>
  /\ HoldsWrittenUrl(outFiles[1])

\* the last column of row 1 holding header text, 0 when there is none
LastPopulatedHeader(g) ==
  IF \E c \in 1..Width(g) : IsHeaderText(g[1][c])
  THEN CHOOSE c \in 1..Width(g) :
         /\ IsHeaderText(g[1][c])
         /\ \A d \in 1..Width(g) : IsHeaderText(g[1][d]) => d <= c
  ELSE 0

\* where the required headers of sheet g are found, given that the missing
\* ones are appended from column `after` + 1 on
HeaderColsFrom(g, after) ==
  LET ex == ExistingHeaders(g)
      t == IF TITLE_HEADER \in DOMAIN ex THEN ex[TITLE_HEADER] ELSE after + 1
      i == IF IMAGE_HEADER \in DOMAIN ex THEN ex[IMAGE_HEADER]
           ELSE IF TITLE_HEADER \in DOMAIN ex THEN after + 1 ELSE after + 2
  IN [title |-> t, image |-> i]

\* every cell of the current sheet's data rows that differs from the stored
\* input (a cell the input lacks counts as None) lies in column c
OnlyColumnChanged(c) ==
  \A r \in 2..Height(wb[sh]) : \A k \in 1..Width(wb[sh]) :
    (wb[sh][r][k] # (IF k <= Width(inFile[sh]) THEN inFile[sh][r][k] ELSE None))
      => k = c

\* the header row of the current sheet is the stored one with the required
\* headers at the given columns
HeaderRowIs(cols) ==
  \A k \in 1..Width(wb[sh]) :
    wb[sh][1][k] =
      IF k <= Width(inFile[sh]) THEN inFile[sh][1][k]
      ELSE IF k = cols.title THEN Str(TITLE_HEADER)
      ELSE IF k = cols.image THEN Str(IMAGE_HEADER)
      ELSE None

\* C8 as stated: while the rows of a sheet are processed, an existing required
\* header has kept its column, a missing one stands immediately after the last
\* populated header, and the Image column so found is the only column of the
\* data rows that differs from the input.
C8_AfterLastPopulatedHeader ==
  pc \in RowLoopPcs =>
    LET cols == HeaderColsFrom(inFile[sh], LastPopulatedHeader(inFile[sh]))
    IN /\ title_col = cols.title /\ image_col = cols.image
       /\ OnlyColumnChanged(image_col)

\* C8 amended: as C8, with a missing header standing immediately after the
\* sheet's last column (ws.max_column, which is 1 for an empty sheet) or after
\* the header appended before it; the header row is otherwise unchanged.
C8_AfterMaxColumn ==
  pc \in RowLoopPcs =>
    LET cols == HeaderColsFrom(inFile[sh], Width(inFile[sh]))
    IN /\ title_col = cols.title /\ image_col = cols.image
       /\ col_map[IMAGE_HEADER] = image_col
       /\ HeaderRowIs(cols)
       /\ OnlyColumnChanged(image_col)

\* a row was written in the Image column that header-ensure appended to a
\* sheet stored without it
C8_Witness ==
  /\ pc = "row" /\ filled = 1 /\ row = 3
  /\ IMAGE_HEADER \notin DOMAIN ExistingHeaders(inFile[sh])
  /\ image_col = Width(inFile[sh]) + 1
  /\ wb[sh][2][image_col] \in {Str(UrlText(u)) : u \in URLS}

\* C9: with its credential in place, no provider response and no probe answer
\* makes the run end by an uncaught exception before the save.
C9_NoResponseAbortsTheRun == cred => pc # "crashed"

\* C10: a run whose credential is missing gets no further than startup: it
\* loads and changes no sheet, asks the provider nothing and saves nothing.
C10_MissingCredentialStopsAtStartup ==
  ~cred =>
    /\ pc \in {"start", "nofile", "aborted"}
    /\ wb = <<>> /\ rowLog = <<>> /\ outFiles = <<>>

\* C11: when the run is over, its exit status is non-zero exactly when the
\* input workbook was not found or the required credential is missing.
C11_ExitStatusTellsFailure ==
  Terminated => (ExitStatus # 0 <=> (~inputExists \/ ~cred))

\* the Image cell of data row r of sheet s as the input workbook stored it
StartImage(s, r) ==
  LET c == TargetColOf(inFile[s])
  IN IF c = 0 THEN None ELSE inFile[s][r][c]

\* the data rows of the current sheet a pass skips: no title, or an Image
\* cell that was not blank
SkippedRows ==
  {r \in 2..rows : \/ ~HasText(wb[sh][r][title_col])
                   \/ NonBlank(StartImage(sh, r))}

\* the data rows of the current sheet whose Image cell the pass wrote
WrittenRows ==
  {r \in 2..rows : wb[sh][r][image_col] # StartImage(sh, r)}

\* C12: when the rows of a sheet have all been processed, the skipped counter
\* is the number of rows without a title or with an image already, the filled
\* counter is the number of rows written, and the remaining rows are the
\* not-found ones, so that the three counts add up to the data rows.
C12_EveryRowCounted ==
  (pc = "row" /\ row > rows) =>
    /\ skipped = Cardinality(SkippedRows)
    /\ filled = Cardinality(WrittenRows)
    /\ SkippedRows \cap WrittenRows = {}

IsSearch(e) == e.kind = "search"

\* C13: between any two search requests of a pass a delay step occurs: within
\* a row a sleep lies between any two requests, and a row that made requests
\* ends with a sleep before the next row starts.
C13_DelayBetweenRequests ==
  /\ \A i, j \in 1..Len(rowLog) :
       (i < j /\ IsSearch(rowLog[i]) /\ IsSearch(rowLog[j]))
         => \E k \in (i + 1)..(j - 1) : rowLog[k].kind = "sleep"
  /\ (pc = "row" /\ rowLog # <<>>) => rowLog[Len(rowLog)].kind = "sleep"

\* the i-th step of the row is the retry of a request answered by HTTP 429
IsRetry(i) ==
  /\ i >= 3 /\ IsSearch(rowLog[i])
  /\ rowLog[i - 1].kind = "sleep"
  /\ IsSearch(rowLog[i - 2]) /\ rowLog[i - 2].status = "http429"

\* the search call is over: its candidates are being looked at, or the row
\* has its result
CallReturned == pc \in {"cand", "write", "row", "sheet", "done"}

\* C14: a first request answered by HTTP 429 is followed by one wait and then
\* one retry, which the call has made by the time it returns; the retry is
\* not retried again, and a request with any other answer is not retried.
C14_OneRetryAfter429 ==
  \A i \in 1..Len(rowLog) :
    /\ (IsSearch(rowLog[i]) /\ rowLog[i].status = "http429" /\ ~IsRetry(i)) =>
         /\ i < Len(rowLog) => rowLog[i + 1].kind = "sleep"
         /\ i + 1 < Len(rowLog) => IsSearch(rowLog[i + 2])
         /\ CallReturned => i + 2 <= Len(rowLog)
    /\ IsRetry(i) =>
         \A j \in (i + 1)..Len(rowLog) : script # "bing" => ~IsSearch(rowLog[j])
    /\ (IsSearch(rowLog[i]) /\ rowLog[i].status # "http429" /\ script # "bing") =>
         \A j \in (i + 1)..Len(rowLog) : ~IsSearch(rowLog[j])

\* the URLs probed so far in the current search call, in order
ProbedInCall ==
  LET lastSearch == CHOOSE i \in 0..Len(rowLog) :
                      /\ i = 0 \/ IsSearch(rowLog[i])
                      /\ \A j \in (i + 1)..Len(rowLog) : ~IsSearch(rowLog[j])
  IN SelectSeq(SubSeq(rowLog, lastSearch + 1, Len(rowLog)),
               LAMBDA e : e.kind = "probe")

\* C15: the candidates a search call produced hold no URL twice, and no URL
\* is probed twice within the call.
C15_NoRepeatedCandidate ==
  /\ \A i, j \in 1..Len(candidates) : i # j => candidates[i] # candidates[j]
  /\ \A i, j \in 1..Len(ProbedInCall) : i # j => ProbedInCall[i].u # ProbedInCall[j].u

\* the cell (r, c) of grid g, None when g has no column c
CellOr(g, r, c) == IF c <= Width(g) THEN g[r][c] ELSE None

\* C16: every step of a pass keeps the number of sheets and of rows, and
\* changes only the Image cell of a data row of the current sheet or a row-1
\* cell in a column the sheet did not have, where it puts a required header;
\* titles, auxiliary cells, other columns and existing headers stay as they are.
C16_Frame ==
  [][(wb # <<>>) =>
       /\ Len(wb') = Len(wb)
       /\ \A s \in 1..Len(wb) :
            /\ Height(wb'[s]) = Height(wb[s])
            /\ Width(wb'[s]) >= Width(wb[s])
            /\ \A r \in 1..Height(wb[s]) : \A c \in 1..Width(wb'[s]) :
                 wb'[s][r][c] # CellOr(wb[s], r, c) =>
                   \/ r >= 2 /\ s = sh /\ c = image_col /\ pc = "write"
                   \/ /\ r = 1 /\ c > Width(wb[s]) /\ pc = "sheet"
                      /\ wb'[s][1][c] \in {Str(TITLE_HEADER), Str(IMAGE_HEADER)}]_vars

\* a run has ended after header-ensure added a column to a sheet and a row's
\* Image cell was written, next to a title and another cell left as stored
C16_Witness ==
  /\ pc = "done" /\ total_filled >= 1
  /\ \E s \in 1..Len(wb) :
       /\ Width(wb[s]) > Width(inFile[s])
       /\ \E r \in 2..Height(wb[s]) : \E c \in 1..Width(wb[s]) :
            /\ wb[s][r][c] \in {Str(UrlText(u)) : u \in URLS}
            /\ \E k \in 1..Width(inFile[s]) : k # c /\ inFile[s][r][k] # None
                                             /\ wb[s][r][k] = inFile[s][r][k]

====
